---- MODULE Spec2Model ----
(***************************************************************************)
(* Invoice Statement Generator API (src/index.py).                         *)
(*                                                                         *)
(* Money is counted in cents (Decimal quantised to 2 places); an amount as *)
(* it arrives in a JSON body is counted in mills (3 places) so that        *)
(* round_decimal has something to round.  Calendar days are small          *)
(* integers.  A Python value that the code treats as a date carries its    *)
(* runtime type: [t |-> "str", v |-> d] is the ISO text of day d (ISO      *)
(* texts order lexically as their days do), [t |-> "date", v |-> d] is a   *)
(* datetime.date.                                                          *)
(***************************************************************************)
EXTENDS Integers, Sequences, FiniteSets, TLC

VARIABLES clock, phase, op, via, body, request, reads, totals, rendered, response

vars == <<clock, phase, op, via, body, request, reads, totals, rendered, response>>

\* ------------------------------------------------------------------ bounds
MaxDay == 2
MaxLen == 2
MaxRows == 24

Days == 0..MaxDay

\* ------------------------------------------------- page geometry (points)
\* A4, in whole points as the source's comment gives it (595 x 842).
height == 842
width == 595
left_margin == 40
right_margin == 40

\* ------------------------------------------------------- Python primitives
Abs(x) == IF x < 0 THEN -x ELSE x

StrVal(d) == [t |-> "str", v |-> d]
DateVal(d) == [t |-> "date", v |-> d]

\* a < b on Python values: str < str is lexical, date < date is by calendar,
\* str < date raises TypeError.
PyLess(a, b) ==
    IF a.t = b.t THEN [err |-> "none", val |-> a.v < b.v]
    ELSE [err |-> "TypeError", val |-> FALSE]

\* a >= b on Python values.
PyGreaterEq(a, b) ==
    IF a.t = b.t THEN [err |-> "none", val |-> a.v >= b.v]
    ELSE [err |-> "TypeError", val |-> FALSE]

\* x.strftime(fmt): only a date has the method.
strftime(x, fmt) ==
    IF x.t = "date" THEN [err |-> "none", text |-> <<fmt, x.v>>]
    ELSE [err |-> "AttributeError", text |-> <<>>]

\* f"{x:,.2f}" of a Decimal with two places: sign, grouped whole part, cents.
Fmt2(c) == [neg |-> c < 0, whole |-> Abs(c) \div 100, frac |-> Abs(c) % 100]

\* round(v, 2) of a Decimal (banker's rounding), mills to cents.
round_decimal(m) ==
    LET a == Abs(m)
        q == a \div 10
        r == a % 10
        n == IF r < 5 THEN q
             ELSE IF r > 5 THEN q + 1
             ELSE IF q % 2 = 0 THEN q ELSE q + 1
    IN IF m < 0 THEN -n ELSE n

\* float(d) of a two-place Decimal, in thousandths of a cent: binary64 holds
\* d exactly only when d is a multiple of 0.25; otherwise it is off by a
\* fraction of an ulp, kept here as one unit with a value-determined sign.
ToFloat(c) ==
    c * 1000 + (IF c % 25 = 0 THEN 0 ELSE IF c % 2 = 0 THEN 1 ELSE -1)

\* round(f, 2) of a float: back to whole cents.
Round2(f) ==
    LET q == f \div 1000
        r == f % 1000
    IN IF r < 500 THEN q
       ELSE IF r > 500 THEN q + 1
       ELSE IF q % 2 = 0 THEN q ELSE q + 1

\* s.replace(' ', '_') on a string held as a sequence of characters.
replace_spaces(s) == [i \in 1..Len(s) |-> IF s[i] = " " THEN "_" ELSE s[i]]

\* ------------------------------------------------------- request validation
\* InvoiceItem: invoice_amount and payments carry Field(ge=0).
InvoiceItemValid(item) == item.invoice_amount >= 0 /\ item.payments >= 0

\* Variant: the comparison is the wrong way round.
validate_dates_swapped(v, values) == ~ PyLess(StrVal(values.from_date), StrVal(v)).val

\* StatementRequest.validate_dates: raises when to_date < from_date, both str.
validate_dates(v, values) == ~ PyLess(StrVal(v), StrVal(values.from_date)).val

\* The field constraints of StatementRequest and of each InvoiceItem in it.
StatementRequestValid(b) ==
    /\ Len(b.client_name) >= 1 /\ Len(b.client_name) <= 200
    /\ Len(b.company_name) >= 1 /\ Len(b.company_name) <= 200
    /\ validate_dates(b.to_date, b)
    /\ Len(b.invoices) >= 1
    /\ \A i \in 1..Len(b.invoices) : InvoiceItemValid(b.invoices[i])

\* The InvoiceItem object built from a JSON item: date is parsed to a date,
\* due_date stays the str it is declared as, both amounts go through
\* round_decimal.
InvoiceItem(item) ==
    [date |-> DateVal(item.date),
     activity |-> item.activity,
     reference |-> item.reference,
     due_date |-> StrVal(item.due_date),
     invoice_amount |-> round_decimal(item.invoice_amount),
     payments |-> round_decimal(item.payments)]

\* The StatementRequest object built from a JSON body that passed validation.
StatementRequest(b) ==
    [client_name |-> b.client_name,
     company_name |-> b.company_name,
     from_date |-> StrVal(b.from_date),
     to_date |-> StrVal(b.to_date),
     invoices |-> [i \in 1..Len(b.invoices) |-> InvoiceItem(b.invoices[i])]]

\* --------------------------------------------------------- aggregation
\* Variant: inv.due_date <= today.
is_overdue_inclusive(inv, today) == PyGreaterEq(today, inv.due_date)

\* inv.due_date < today
is_overdue(inv, today) == PyLess(inv.due_date, today)

\* inv.due_date >= today
is_current(inv, today) == PyGreaterEq(inv.due_date, today)

\* sum((inv.invoice_amount - inv.payments) for inv in invoices
\*     if inv.due_date < today), from row i on; the comparison may raise.
RECURSIVE overdue_from(_, _, _)
overdue_from(invoices, today, i) ==
    IF i > Len(invoices) THEN [err |-> "none", val |-> 0]
    ELSE LET inv == invoices[i]
             c == is_overdue(inv, today)
             rest == overdue_from(invoices, today, i + 1)
         IN IF c.err # "none" THEN [err |-> c.err, val |-> 0]
            ELSE IF rest.err # "none" THEN rest
            ELSE [err |-> "none",
                  val |-> (IF c.val THEN inv.invoice_amount - inv.payments ELSE 0)
                          + rest.val]

\* Variant: the first row is left out of the sum.
overdue_sum_skip_first(invoices, today) == overdue_from(invoices, today, 2)

overdue_sum(invoices, today) == overdue_from(invoices, today, 1)

\* The same sum over the rows with inv.due_date >= today.
RECURSIVE current_from(_, _, _)
current_from(invoices, today, i) ==
    IF i > Len(invoices) THEN [err |-> "none", val |-> 0]
    ELSE LET inv == invoices[i]
             c == is_current(inv, today)
             rest == current_from(invoices, today, i + 1)
         IN IF c.err # "none" THEN [err |-> c.err, val |-> 0]
            ELSE IF rest.err # "none" THEN rest
            ELSE [err |-> "none",
                  val |-> (IF c.val THEN inv.invoice_amount - inv.payments ELSE 0)
                          + rest.val]

current_sum(invoices, today) == current_from(invoices, today, 1)

\* ------------------------------------------------------------- renderer
\* What a call that raised leaves behind: the exception and its line.
Raised(e, l) == [err |-> e, line |-> l, doc |-> <<>>]

\* Variant: the payments are left out of the row's balance.
row_balance_gross(invoice) == invoice.invoice_amount

\* balance = invoice.invoice_amount - invoice.payments
row_balance(invoice) == invoice.invoice_amount - invoice.payments

\* Variant: the balance is assigned instead of added.
accumulate_reset(running_balance, balance) == balance

\* running_balance += balance
accumulate(running_balance, balance) == running_balance + balance

\* The loop body of "for invoice in data.invoices": rows i.. drawn from
\* vertical position y with the balance accumulated so far.
RECURSIVE draw_rows(_, _, _, _)
draw_rows(invoices, i, y, running_balance) ==
    IF i > Len(invoices)
    THEN [err |-> "none", rows |-> <<>>, y |-> y, running_balance |-> running_balance]
    ELSE LET invoice == invoices[i]
             y1 == y - 15
             balance == row_balance(invoice)
             rb == accumulate(running_balance, balance)
             dt == strftime(invoice.date, "%d %b %Y")
             due == strftime(invoice.due_date, "%d %b %Y")
             y2 == y1 - 3
             row == [y |-> y1,
                     date |-> dt.text,
                     reference |-> invoice.reference,
                     link |-> [url |-> invoice.activity,
                               rect_y |-> <<y1 - 2, y1 + 10>>],
                     due_date |-> due.text,
                     invoice_amount |-> Fmt2(invoice.invoice_amount),
                     balance |-> Fmt2(rb),
                     rule_y |-> y2]
         IN IF dt.err # "none" \/ due.err # "none"
            THEN [err |-> "AttributeError", rows |-> <<>>, y |-> y1,
                  running_balance |-> rb]
            ELSE LET rest == draw_rows(invoices, i + 1, y2, rb)
                 IN IF rest.err # "none" THEN rest
                    ELSE [rest EXCEPT !.rows = <<row>> \o rest.rows]

\* generate_statement_pdf(data), with the value date.today() returns at
\* line 222 as a parameter.
generate_statement_pdf(data, today) ==
    LET from_txt == strftime(data.from_date, "%d %b %Y")
        to_txt == strftime(data.to_date, "%d %b %Y")
        y_head == (height - 165) - 3
        table == draw_rows(data.invoices, 1, y_head, 0)
        y_bottom == table.y - 10
        y_balance == y_bottom - 25
        y_dash == y_balance - 100
        y_advice == y_dash - 30
        y_to == y_advice - 20
        overdue == overdue_sum(data.invoices, DateVal(today))
        current == current_sum(data.invoices, DateVal(today))
        y_customer == y_to - 35
        y_customer_rule == y_customer - 5
        y_labels == y_customer_rule - 13
        y_values == y_labels - 15
        y_values_rule == y_values - 5
        y_enclosed == y_values_rule - 13
        y_enclosed_rule == y_enclosed - 5
    IN IF from_txt.err # "none" THEN Raised(from_txt.err, 109)
       ELSE IF to_txt.err # "none" THEN Raised(to_txt.err, 117)
       ELSE IF table.err # "none" THEN Raised(table.err, 178)
       ELSE IF overdue.err # "none" THEN Raised(overdue.err, 226)
       ELSE IF current.err # "none" THEN Raised(current.err, 231)
       ELSE [err |-> "none", line |-> 283,
             doc |-> [title |-> [y |-> height - 50, text |-> "OVERDUE STATEMENT"],
                      client_name |-> [y |-> height - 50, text |-> data.client_name],
                      from_date |-> [y |-> height - 65, text |-> from_txt.text],
                      to_date |-> [y |-> height - 93, text |-> to_txt.text],
                      company_name |-> [y |-> height - 105, text |-> data.company_name],
                      header_y |-> height - 165,
                      header_rule |-> [y |-> y_head, x1 |-> left_margin,
                                       x2 |-> width - right_margin],
                      rows |-> table.rows,
                      bottom_rule_y |-> y_bottom,
                      balance_due |-> [y |-> y_balance,
                                       amount |-> Fmt2(table.running_balance)],
                      dash_y |-> y_dash,
                      advice_y |-> y_advice,
                      to |-> [y |-> y_to, text |-> data.client_name],
                      customer |-> [y |-> y_customer, text |-> data.company_name],
                      customer_rule_y |-> y_customer_rule,
                      labels_y |-> y_labels,
                      values_y |-> y_values,
                      overdue |-> Fmt2(overdue.val),
                      current |-> Fmt2(current.val),
                      total |-> Fmt2(table.running_balance),
                      values_rule_y |-> y_values_rule,
                      enclosed_y |-> y_enclosed,
                      enclosed_rule_y |-> y_enclosed_rule]]

\* ------------------------------------------------------------ endpoints
NotRun == [err |-> "notrun", line |-> 0, doc |-> <<>>]

NoTotals == [computed |-> FALSE, overdue |-> 0, current |-> 0, total_due |-> 0]

NoReads == [endpoint |-> -1, renderer |-> -1, filename |-> -1]

\* raise HTTPException(status_code=..., detail=...)
HTTPException(status_code, detail) ==
    [status |-> status_code, media_type |-> "application/json",
     disposition |-> "", filename |-> <<>>, content |-> <<>>,
     detail |-> detail, summary |-> <<>>]

\* The request never reaches a handler: a field constraint or validator of
\* the request model failed while the body was being parsed.
RequestValidationError ==
    [status |-> 422, media_type |-> "application/json",
     disposition |-> "", filename |-> <<>>, content |-> <<>>,
     detail |-> <<"validation error">>, summary |-> <<>>]

\* f"attachment; filename=statement_{company_name.replace(' ', '_')}_
\*   {datetime.now().strftime('%Y%m%d')}.pdf"
statement_filename(company_name, now) ==
    <<"statement_">> \o replace_spaces(company_name)
        \o <<"_", <<"%Y%m%d", now>>, ".pdf">>

\* Variant: the status of preview_statement's handler.
generate_failed_400(e) == HTTPException(400, <<"Error generating statement: ", e>>)

\* except Exception as e: raise HTTPException(status_code=500, ...)
generate_failed(e) == HTTPException(500, <<"Error generating statement: ", e>>)

\* generate_statement(request); t1, t2, t3 are what the clock returns at
\* lines 323, 222 and 346, when those lines are reached.
generate_statement(req, t1, t2, t3) ==
    LET overdue == overdue_sum(req.invoices, DateVal(t1))
        current == current_sum(req.invoices, DateVal(t1))
        tot == [computed |-> TRUE,
                overdue |-> ToFloat(overdue.val),
                current |-> ToFloat(current.val),
                total_due |-> ToFloat(overdue.val) + ToFloat(current.val)]
        pdf == generate_statement_pdf(req, t2)
        failed(e) == generate_failed(e)
    IN IF overdue.err # "none"
       THEN [response |-> failed(overdue.err), totals |-> NoTotals,
             rendered |-> NotRun,
             reads |-> [NoReads EXCEPT !.endpoint = t1]]
       ELSE IF current.err # "none"
       THEN [response |-> failed(current.err), totals |-> NoTotals,
             rendered |-> NotRun,
             reads |-> [NoReads EXCEPT !.endpoint = t1]]
       ELSE IF pdf.err # "none"
       THEN [response |-> failed(pdf.err), totals |-> tot, rendered |-> pdf,
             reads |-> [endpoint |-> t1,
                        renderer |-> IF pdf.line >= 222 THEN t2 ELSE -1,
                        filename |-> -1]]
       ELSE [response |-> [status |-> 200, media_type |-> "application/pdf",
                           disposition |-> "attachment",
                           filename |-> statement_filename(req.company_name, t3),
                           content |-> <<pdf.doc>>,
                           detail |-> <<>>, summary |-> <<>>],
             totals |-> tot, rendered |-> pdf,
             reads |-> [endpoint |-> t1, renderer |-> t2, filename |-> t3]]

\* preview_statement(request); t is what date.today() returns at line 366.
preview_statement(req, t) ==
    LET overdue == overdue_sum(req.invoices, DateVal(t))
        current == current_sum(req.invoices, DateVal(t))
        o == ToFloat(overdue.val)
        c == ToFloat(current.val)
        total_due == o + c
    IN IF overdue.err # "none" \/ current.err # "none"
       THEN [response |-> HTTPException(400,
                 <<IF overdue.err # "none" THEN overdue.err ELSE current.err>>),
             totals |-> NoTotals, rendered |-> NotRun,
             reads |-> [NoReads EXCEPT !.endpoint = t]]
       ELSE [response |-> [status |-> 200, media_type |-> "application/json",
                           disposition |-> "", filename |-> <<>>,
                           content |-> <<>>, detail |-> <<>>,
                           summary |-> <<[message |-> "Statement preview generated successfully",
                                          total_due |-> Round2(total_due),
                                          overdue_amount |-> Round2(o),
                                          current_amount |-> Round2(c),
                                          file_size |-> 0]>>],
             totals |-> [computed |-> TRUE, overdue |-> o, current |-> c,
                         total_due |-> total_due],
             rendered |-> NotRun,
             reads |-> [NoReads EXCEPT !.endpoint = t]]

\* value_error_handler(request, exc), registered for ValueError.  Both
\* handlers catch every exception themselves and a body that fails the
\* request model is answered before a handler runs, so no action uses it.
value_error_handler(exc) == HTTPException(400, <<exc>>)

\* root(): the health check payload.
root ==
    [status |-> 200, media_type |-> "application/json",
     disposition |-> "", filename |-> <<>>, content |-> <<>>, detail |-> <<>>,
     summary |-> <<[status |-> "healthy",
                    service |-> "Invoice Statement Generator API",
                    version |-> "1.0.0"]>>]

\* --------------------------------------------------------------- inputs
RawItem(a, p, d) ==
    [date |-> 0, activity |-> "https://books.example/inv", reference |-> "Invoice # INV",
     due_date |-> d, invoice_amount |-> a, payments |-> p]

\* 50.00/0.00, 30.00/10.00 and 10.005/20.00 (rounds to 10.00, overpaid).
GoodAmounts == {<<50000, 0>>, <<30000, 10000>>, <<10005, 20000>>}

RawItems ==
    {RawItem(ap[1], ap[2], d) : ap \in GoodAmounts, d \in Days}
        \cup {RawItem(-1000, 0, 0), RawItem(50000, -1000, 0)}

ShortLists == UNION {[1..n -> RawItems] : n \in 0..MaxLen}

LongLists == {[i \in 1..n |-> RawItem(50000, 0, 1)] : n \in (MaxLen + 1)..MaxRows}

Name(n) == [i \in 1..n |-> IF i % 2 = 0 THEN " " ELSE "A"]

RawBody(client, company, from, to, invoices) ==
    [client_name |-> client, company_name |-> company,
     from_date |-> from, to_date |-> to, invoices |-> invoices]

Bodies ==
    {RawBody(Name(1), Name(3), 0, 1, l) : l \in ShortLists \cup LongLists}
        \cup {RawBody(c[1], c[2], c[3], c[4], l) :
                c \in {<<Name(1), Name(3), 1, 0>>, <<Name(1), Name(3), 1, 1>>,
                       <<Name(0), Name(3), 0, 1>>, <<Name(1), Name(0), 0, 1>>,
                       <<Name(201), Name(3), 0, 1>>, <<Name(1), Name(201), 0, 1>>,
                       <<Name(200), Name(200), 0, 1>>},
                l \in {<<>>, <<RawItem(50000, 0, 1)>>}}

\* A request object whose due dates (and, with hdr, whose period dates) hold
\* datetime.date values, the type lines 109, 117, 178 and 226 operate on.
\* Field assignment on the request model is not validated, so a caller of
\* the functions can hold such an object.
with_dates(req, hdr) ==
    [req EXCEPT
        !.from_date = IF hdr THEN DateVal(req.from_date.v) ELSE req.from_date,
        !.to_date = IF hdr THEN DateVal(req.to_date.v) ELSE req.to_date,
        !.invoices = [i \in 1..Len(req.invoices) |->
                        [req.invoices[i] EXCEPT !.due_date = DateVal(req.invoices[i].due_date.v)]]]

Objects ==
    {with_dates(StatementRequest(b), hdr) :
        b \in {x \in Bodies : StatementRequestValid(x)}, hdr \in BOOLEAN}

NoBody == RawBody(<<>>, <<>>, 0, 0, <<>>)

NoRequest == StatementRequest(NoBody)

NoResponse == HTTPException(0, <<>>)

\* What the clock can return at a later line of the same handler: the same
\* day, or the next one when midnight falls in between.
Later(t) == {d \in Days : t <= d /\ d <= t + 1}

Max(a, b) == IF a >= b THEN a ELSE b

\* --------------------------------------------------------------- actions
Init ==
    /\ clock \in Days
    /\ phase = "idle"
    /\ op = "none"
    /\ via = "none"
    /\ body = NoBody
    /\ request = NoRequest
    /\ reads = NoReads
    /\ totals = NoTotals
    /\ rendered = NotRun
    /\ response = NoResponse

Handled(name, how, b, req, out) ==
    /\ phase' = "responded"
    /\ op' = name
    /\ via' = how
    /\ body' = b
    /\ request' = req
    /\ reads' = out.reads
    /\ totals' = out.totals
    /\ rendered' = out.rendered
    /\ response' = out.response
    /\ clock' = Max(out.reads.endpoint, Max(out.reads.renderer, out.reads.filename))

Rejected(name, b) ==
    /\ phase' = "responded"
    /\ op' = name
    /\ via' = "http"
    /\ body' = b
    /\ request' = NoRequest
    /\ reads' = NoReads
    /\ totals' = NoTotals
    /\ rendered' = NotRun
    /\ response' = RequestValidationError
    /\ clock' = clock

\* POST /generate-statement: the body is parsed into a StatementRequest, and
\* generate_statement runs on it if it validates.
HttpGenerateStatement ==
    /\ phase = "idle"
    /\ \E b \in Bodies :
        IF StatementRequestValid(b)
        THEN \E t2 \in Later(clock) : \E t3 \in Later(clock) :
                /\ t2 <= t3
                /\ Handled("generate", "http", b, StatementRequest(b),
                           generate_statement(StatementRequest(b), clock, t2, t3))
        ELSE Rejected("generate", b)

\* POST /preview-statement.
HttpPreviewStatement ==
    /\ phase = "idle"
    /\ \E b \in Bodies :
        IF StatementRequestValid(b)
        THEN Handled("preview", "http", b, StatementRequest(b),
                     preview_statement(StatementRequest(b), clock))
        ELSE Rejected("preview", b)

\* GET /.
HttpRoot ==
    /\ phase = "idle"
    /\ phase' = "responded"
    /\ op' = "root"
    /\ via' = "http"
    /\ response' = root
    /\ body' = NoBody /\ request' = NoRequest /\ reads' = NoReads
    /\ totals' = NoTotals /\ rendered' = NotRun
    /\ UNCHANGED clock

\* generate_statement(request) called on a request object.
CallGenerateStatement ==
    /\ phase = "idle"
    /\ \E req \in Objects : \E t2 \in Later(clock) : \E t3 \in Later(clock) :
        /\ t2 <= t3
        /\ Handled("generate", "call", NoBody, req,
                   generate_statement(req, clock, t2, t3))

\* preview_statement(request) called on a request object.
CallPreviewStatement ==
    /\ phase = "idle"
    /\ \E req \in Objects :
        Handled("preview", "call", NoBody, req, preview_statement(req, clock))

\* generate_statement_pdf(data) called on a request object.
CallGenerateStatementPdf ==
    /\ phase = "idle"
    /\ \E req \in Objects :
        LET pdf == generate_statement_pdf(req, clock)
        IN Handled("render", "call", NoBody, req,
                   [response |-> NoResponse, totals |-> NoTotals, rendered |-> pdf,
                    reads |-> [NoReads EXCEPT !.renderer =
                                  IF pdf.line >= 222 THEN clock ELSE -1]])

\* The response is handed over and the request's state is dropped; nothing
\* is kept between requests.
Deliver ==
    /\ phase = "responded"
    /\ phase' = "idle"
    /\ op' = "none" /\ via' = "none"
    /\ body' = NoBody /\ request' = NoRequest /\ reads' = NoReads
    /\ totals' = NoTotals /\ rendered' = NotRun /\ response' = NoResponse
    /\ UNCHANGED clock

\* Midnight passes.
Tick ==
    /\ phase = "idle"
    /\ clock < MaxDay
    /\ clock' = clock + 1
    /\ UNCHANGED <<phase, op, via, body, request, reads, totals, rendered, response>>

Next ==
    \/ HttpGenerateStatement
    \/ HttpPreviewStatement
    \/ HttpRoot
    \/ CallGenerateStatement
    \/ CallPreviewStatement
    \/ CallGenerateStatementPdf
    \/ Deliver
    \/ Tick

Spec == Init /\ [][Next]_vars

\* =================================================================== claims
Responded(name) == phase = "responded" /\ op = name

\* The request came over HTTP, validated, and reached its handler.
ValidatedHttp == via = "http" /\ response # RequestValidationError

Balance(inv) == inv.invoice_amount - inv.payments

\* Sum of the balances of the rows whose index is in S.
RECURSIVE SumOver(_, _)
SumOver(invs, S) ==
    IF S = {} THEN 0
    ELSE LET i == CHOOSE x \in S : TRUE
         IN Balance(invs[i]) + SumOver(invs, S \ {i})

Rows(invs) == 1..Len(invs)

\* The amount a formatted figure shows, in cents.
Shown(f) == (IF f.neg THEN -1 ELSE 1) * (f.whole * 100 + f.frac)

\* Every reordering of a short list; every exchange of two rows of a long one.
Rearrangements(invs) ==
    LET n == Len(invs)
    IN IF n <= 4
       THEN {[i \in 1..n |-> invs[p[i]]] :
                p \in {f \in [1..n -> 1..n] : \A a, b \in 1..n : a # b => f[a] # f[b]}}
       ELSE {[k \in 1..n |-> IF k = ij[1] THEN invs[ij[2]]
                             ELSE IF k = ij[2] THEN invs[ij[1]] ELSE invs[k]] :
                ij \in (1..n) \X (1..n)}

\* C1: every validated request to the generate endpoint is answered with the
\* PDF: status 200, media type application/pdf, attachment disposition, the
\* filename statement_<company with underscores>_<today YYYYMMDD>.pdf, and
\* never an error response.
C1_GenerateDeliversPdf ==
    (Responded("generate") /\ ValidatedHttp) =>
        /\ response.status = 200
        /\ response.media_type = "application/pdf"
        /\ response.disposition = "attachment"
        /\ Len(response.content) = 1
        /\ response.filename =
              <<"statement_">> \o replace_spaces(request.company_name)
                  \o <<"_", <<"%Y%m%d", reads.filename>>, ".pdf">>

\* C2: every validated request to the preview endpoint is answered with a
\* summary record: file_size 0, overdue_amount and current_amount the
\* aggregated totals, total_due their sum, and no document is produced.
C2_PreviewReturnsSummary ==
    (Responded("preview") /\ ValidatedHttp) =>
        /\ response.status = 200
        /\ Len(response.summary) = 1
        /\ response.summary[1].file_size = 0
        /\ response.summary[1].total_due =
              response.summary[1].overdue_amount + response.summary[1].current_amount
        /\ response.summary[1].total_due = SumOver(request.invoices, Rows(request.invoices))
        /\ rendered = NotRun
        /\ Len(response.content) = 0

C6_InvalidRejectedBeforeEngine ==
    LET bad == \/ Len(body.invoices) = 0
               \/ \E i \in Rows(body.invoices) :
                     body.invoices[i].invoice_amount < 0 \/ body.invoices[i].payments < 0
               \/ body.to_date < body.from_date
    IN (phase = "responded" /\ via = "http" /\ op \in {"generate", "preview"} /\ bad) =>
          /\ response.status >= 400 /\ response.status < 500
          /\ request = NoRequest
          /\ reads = NoReads
          /\ ~ totals.computed
          /\ rendered = NotRun
          /\ Len(response.content) = 0
          /\ Len(response.summary) = 0

C6_Witness ==
    /\ Responded("generate")
    /\ via = "http"
    /\ body.to_date < body.from_date
    /\ Len(body.invoices) >= 1
    /\ response = RequestValidationError

====
